---- MODULE Spec2Model ----
(***************************************************************************)
(* A model of rgr2import (src/main.c): the command line, the index fetch   *)
(* and decode, the filter loop and download_photo.  C strings are          *)
(* sequences of one-character strings; a buffer of size n holds at most    *)
(* n-1 of them.                                                            *)
(***************************************************************************)
EXTENDS Integers, Sequences, FiniteSets, TLC

\* ------------------------------------------------------------------ sizes
MAX_FILENAME == 256
MAX_TAG == 256
MAX_DATE == 32
MAX_PATH == 512
MAX_URL == 512
MAX_FILEPATH == 1024
INITIAL_CAPACITY == 100

\* ----------------------------------------------------------------- bounds
MaxArgs == 2
MaxDirs == 1
MaxFiles == 2
MaxSanLen == 3

\* ---------------------------------------------------------------- C strings
Min(a, b) == IF a < b THEN a ELSE b

UpperChars == <<"A","B","C","D","E","F","G","H","I","J","K","L","M",
                "N","O","P","Q","R","S","T","U","V","W","X","Y","Z">>
LowerChars == <<"a","b","c","d","e","f","g","h","i","j","k","l","m",
                "n","o","p","q","r","s","t","u","v","w","x","y","z">>
DigitChars == <<"0","1","2","3","4","5","6","7","8","9">>

IsUpper(ch) == \E k \in 1..26 : UpperChars[k] = ch
IsLower(ch) == \E k \in 1..26 : LowerChars[k] = ch
IsDigit(ch) == \E k \in 1..10 : DigitChars[k] = ch
DigitVal(ch) == (CHOOSE k \in 1..10 : DigitChars[k] = ch) - 1

tolower(ch) ==
    IF IsUpper(ch) THEN LowerChars[CHOOSE k \in 1..26 : UpperChars[k] = ch] ELSE ch

\* strncpy(dst, src, n) followed by dst[n] = '\0'
strncpy(src, n) == SubSeq(src, 1, Min(Len(src), n))

\* snprintf(buf, size, "%s...", ...) of the already concatenated text
snprintf(size, text) == SubSeq(text, 1, Min(Len(text), size - 1))

\* strstr(hay, needle) != NULL
strstr(hay, needle) ==
    \E k \in 1..(Len(hay) - Len(needle) + 1) :
        \A m \in 1..Len(needle) : hay[k + m - 1] = needle[m]

\* strrchr(s, ch): the index of the last ch, 0 for NULL
strrchr(s, ch) ==
    IF \E k \in 1..Len(s) : s[k] = ch
    THEN CHOOSE k \in 1..Len(s) : s[k] = ch /\ \A m \in (k+1)..Len(s) : s[m] # ch
    ELSE 0

\* strcasecmp(a, b) == 0
strcasecmp_eq(a, b) ==
    /\ Len(a) = Len(b)
    /\ \A k \in 1..Len(a) : tolower(a[k]) = tolower(b[k])

\* --------------------------------------------------------- sanitize_filename
\* safe_char with the path separator let through as well
safe_char_slash(ch) ==
    \/ IsLower(ch)
    \/ IsUpper(ch)
    \/ IsDigit(ch)
    \/ ch = "." \/ ch = "-" \/ ch = "_" \/ ch = "/"

safe_char(ch) ==
    \/ IsLower(ch)
    \/ IsUpper(ch)
    \/ IsDigit(ch)
    \/ ch = "." \/ ch = "-" \/ ch = "_"

\* the while loop of sanitize_filename: src and dst walk the same buffer
RECURSIVE sanitize_loop(_, _, _)
sanitize_loop(buf, src, dst) ==
    IF src > Len(buf)
    THEN SubSeq(buf, 1, dst - 1)
    ELSE IF safe_char(buf[src])
         THEN sanitize_loop([buf EXCEPT ![dst] = buf[src]], src + 1, dst + 1)
         ELSE sanitize_loop(buf, src + 1, dst)

sanitize_filename(filename) == sanitize_loop(filename, 1, 1)

\* ------------------------------------------------------------- validate_path
\* (the "null bytes" test, strlen(path) != strcspn(path, "\0"), is never true)
validate_path(path) ==
    IF Len(path) = 0 THEN -1
    ELSE IF strstr(path, <<".", ".">>) THEN -1
    ELSE IF strstr(path, <<"/", "/">>) THEN -1
    ELSE IF Len(path) >= MAX_PATH THEN -1
    ELSE 0

\* ------------------------------------------------------------ matches_format
FmtAll == <<"a","l","l">>
FmtJpg == <<"j","p","g">>
FmtDng == <<"d","n","g">>
ExtJpeg == <<"j","p","e","g">>

\* matches_format comparing the extension with strcmp instead of strcasecmp
matches_format_case_sensitive(filename, format) ==
    IF format = FmtAll THEN TRUE
    ELSE LET dot == strrchr(filename, ".")
             ext == SubSeq(filename, dot + 1, Len(filename))
         IN  IF dot = 0 THEN FALSE
             ELSE IF format = FmtJpg THEN ext = FmtJpg \/ ext = ExtJpeg
                  ELSE IF format = FmtDng THEN ext = FmtDng
                  ELSE FALSE

matches_format(filename, format) ==
    IF format = FmtAll THEN TRUE
    ELSE LET dot == strrchr(filename, ".")
             ext == SubSeq(filename, dot + 1, Len(filename))
         IN  IF dot = 0 THEN FALSE
             ELSE IF format = FmtJpg
                  THEN strcasecmp_eq(ext, FmtJpg) \/ strcasecmp_eq(ext, ExtJpeg)
                  ELSE IF format = FmtDng THEN strcasecmp_eq(ext, FmtDng)
                  ELSE FALSE

\* -------------------------------------------------- timestamp_to_date_folder
\* sscanf's %<width>d at position pos: leading white space is skipped, an
\* optional sign counts towards the width, then decimal digits.
RECURSIVE skip_space(_, _)
skip_space(s, pos) ==
    IF pos <= Len(s) /\ s[pos] = " " THEN skip_space(s, pos + 1) ELSE pos

RECURSIVE scan_digits(_, _, _, _, _)
scan_digits(s, pos, left, acc, n) ==
    IF left > 0 /\ pos <= Len(s) /\ IsDigit(s[pos])
    THEN scan_digits(s, pos + 1, left - 1, acc * 10 + DigitVal(s[pos]), n + 1)
    ELSE [val |-> acc, next |-> pos, n |-> n]

scan_int(s, pos0, width) ==
    LET pos == skip_space(s, pos0)
        signed == pos <= Len(s) /\ s[pos] \in {"-", "+"}
        neg == signed /\ s[pos] = "-"
        r == IF signed
             THEN scan_digits(s, pos + 1, width - 1, 0, 0)
             ELSE scan_digits(s, pos, width, 0, 0)
    IN  [ok |-> r.n > 0, val |-> IF neg THEN 0 - r.val ELSE r.val, next |-> r.next]

\* a literal character of the format at position pos
scan_lit(s, pos, ch) == pos <= Len(s) /\ s[pos] = ch

\* sscanf(timestamp, "%4d-%2d-%2dT%2d:%2d:%2d", ...) >= 3, with the three
\* values; the conversions after the third only raise the count.
sscanf_date(timestamp) ==
    LET y == scan_int(timestamp, 1, 4)
        m == scan_int(timestamp, y.next + 1, 2)
        d == scan_int(timestamp, m.next + 1, 2)
    IN  IF /\ y.ok
           /\ scan_lit(timestamp, y.next, "-")
           /\ m.ok
           /\ scan_lit(timestamp, m.next, "-")
           /\ d.ok
        THEN [matched |-> TRUE, year |-> y.val, mon |-> m.val, mday |-> d.val]
        ELSE [matched |-> FALSE, year |-> 0, mon |-> 0, mday |-> 0]

RECURSIVE decimal(_)
decimal(n) ==
    IF n < 10 THEN <<DigitChars[n + 1]>>
    ELSE decimal(n \div 10) \o <<DigitChars[(n % 10) + 1]>>

RECURSIVE zero_pad(_, _)
zero_pad(text, width) ==
    IF Len(text) >= width THEN text ELSE zero_pad(<<"0">> \o text, width)

\* printf's %0<width>d
fmt_0d(v, width) ==
    IF v < 0 THEN <<"-">> \o zero_pad(decimal(0 - v), width - 1)
    ELSE zero_pad(decimal(v), width)

\* the current local date as strftime("%Y-%m-%d") prints it
LocalDate == <<"2","0","2","6","-","1","1","-","0","2">>

timestamp_to_date_folder(timestamp) ==
    LET tm == sscanf_date(timestamp)
    IN  IF tm.matched
        THEN snprintf(MAX_DATE,
                 fmt_0d((tm.year - 1900) + 1900, 4) \o <<"-">>
                 \o fmt_0d((tm.mon - 1) + 1, 2) \o <<"-">>
                 \o fmt_0d(tm.mday, 2))
        ELSE LocalDate

\* --------------------------------------------------------- parse_photos_json
\* A cJSON item read as a string: cJSON_IsString(item) && item->valuestring.
JStr(text) == [isString |-> TRUE, valuestring |-> text]
JNotStr == [isString |-> FALSE, valuestring |-> <<>>]
\* A cJSON item read as an array: cJSON_IsArray(item) and its elements.
JArr(items) == [isArray |-> TRUE, items |-> items]
JNotArr == [isArray |-> FALSE, items |-> <<>>]

\* struct photo
Photo(name, tag, date) == [name |-> name, tag |-> tag, date |-> date]

\* One pass of the inner cJSON_ArrayForEach(file, files) body (realloc is
\* taken to succeed; it keeps what the array holds).  st is
\* [mem, count, capacity]: mem is the malloc'ed array (slot count + 1 is
\* (*photos)[count]), written in place.
parse_file(file, tag, st) ==
    LET capacity == IF st.count >= st.capacity THEN st.capacity * 2 ELSE st.capacity
        slot == st.count + 1
        name == sanitize_filename(strncpy(file.n.valuestring, MAX_FILENAME - 1))
        stag == sanitize_filename(strncpy(tag.valuestring, MAX_TAG - 1))
        mem1 == IF file.n.isString
                THEN [st.mem EXCEPT ![slot].name = name, ![slot].tag = stag]
                ELSE st.mem
        date == IF file.d.isString
                THEN timestamp_to_date_folder(file.d.valuestring)
                ELSE LocalDate
    IN  IF file.n.isString /\ Len(name) = 0
        THEN [mem |-> mem1, count |-> st.count, capacity |-> capacity]
        ELSE [mem |-> [mem1 EXCEPT ![slot].date = date],
              count |-> st.count + 1, capacity |-> capacity]

RECURSIVE parse_files(_, _, _, _)
parse_files(files, k, tag, st) ==
    IF k > Len(files) THEN st
    ELSE parse_files(files, k + 1, tag, parse_file(files[k], tag, st))

\* One pass of the outer cJSON_ArrayForEach(dir, dirs) body.
parse_dir(dir, st) ==
    IF ~dir.name.isString THEN st
    ELSE IF ~dir.files.isArray THEN st
    ELSE parse_files(dir.files.items, 1, dir.name, st)

RECURSIVE parse_dirs(_, _, _)
parse_dirs(dirs, j, st) ==
    IF j > Len(dirs) THEN st
    ELSE parse_dirs(dirs, j + 1, parse_dir(dirs[j], st))

RECURSIVE count_files(_, _)
count_files(dirs, j) ==
    IF j > Len(dirs) THEN 0
    ELSE Len(dirs[j].files.items) + count_files(dirs, j + 1)

\* heap is what malloc returns: whether it succeeds, and the bytes that
\* the fresh block happens to hold (it is never cleared).
parse_photos_json(json_data, heap) ==
    IF ~json_data.parsed THEN [ret |-> -1, photos |-> <<>>]
    ELSE IF ~json_data.dirs.isArray THEN [ret |-> -1, photos |-> <<>>]
    ELSE IF ~heap.ok THEN [ret |-> -1, photos |-> <<>>]
    ELSE LET n == count_files(json_data.dirs.items, 1)
             st0 == [mem |-> [k \in 1..n |-> heap.block],
                     count |-> 0, capacity |-> INITIAL_CAPACITY]
             st == parse_dirs(json_data.dirs.items, 1, st0)
         IN  [ret |-> 0, photos |-> SubSeq(st.mem, 1, st.count)]

\* ------------------------------------------------------------ the file system
\* dirs is the set of existing directories, files maps each existing regular
\* file to its content: "old" (there before the run), "empty" (just created
\* by fopen "wb"), "partial" or "body" (written by a transfer).
RECURSIVE resolve(_)
resolve(path) ==
    IF Len(path) > 1 /\ path[Len(path)] = "/"
    THEN resolve(SubSeq(path, 1, Len(path) - 1))
    ELSE path

is_dir(fs, path) == resolve(path) \in fs.dirs
is_file(fs, path) == path \in DOMAIN fs.files

\* stat(path, &st) != -1, access(path, F_OK) == 0
path_exists(fs, path) == is_dir(fs, path) \/ is_file(fs, path)

write_file(fs, path, content) ==
    [fs EXCEPT !.files = [q \in (DOMAIN fs.files) \cup {path} |->
                             IF q = path THEN content ELSE fs.files[q]]]

\* unlink left out: the file stays
unlink_skipped(fs, path) == fs

unlink(fs, path) ==
    [fs EXCEPT !.files = [q \in (DOMAIN fs.files) \ {path} |-> fs.files[q]]]

\* create_directory: mkdir_ok is whether mkdir(path, 0755) succeeds
create_directory(fs, path, mkdir_ok) ==
    IF ~path_exists(fs, path)
    THEN IF ~mkdir_ok
         THEN [ret |-> -1, fs |-> fs]
         ELSE [ret |-> 0, fs |-> [fs EXCEPT !.dirs = @ \cup {resolve(path)}]]
    ELSE [ret |-> 0, fs |-> fs]

file_exists(fs, filepath) == path_exists(fs, filepath)

\* ------------------------------------------------------------ download_photo
BaseUrl == <<"h","t","t","p",":","/","/","1","9","2",".","1","6","8",".","0",".","1">>
IndexUrl == BaseUrl \o <<"/","_","g","r","/","o","b","j","s">>
PhotosPrefix == <<"/","v","1","/","p","h","o","t","o","s","/">>

\* snprintf(full_dir_path, sizeof(full_dir_path), "%s/%s", base_path, date_folder)
full_dir_path_of(bp, date_folder) == snprintf(MAX_PATH, bp \o <<"/">> \o date_folder)

\* snprintf(filepath, sizeof(filepath), "%s/%s", full_dir_path, name)
filepath_of(full_dir_path, name) == snprintf(MAX_FILEPATH, full_dir_path \o <<"/">> \o name)

\* snprintf(url, sizeof(url), "%s/v1/photos/%s/%s", base_url, tag, name)
url_of(base_url, tag, name) ==
    snprintf(MAX_URL, base_url \o PhotosPrefix \o tag \o <<"/">> \o name)

\* what one call did: its return value, the file system it leaves, the URLs
\* it requested, the path it worked on, and how often it opened and closed
\* the destination file
Outcome(ret, fs, urls, how, filepath, fopens, fcloses) ==
    [ret |-> ret, fs |-> fs, urls |-> urls, how |-> how,
     filepath |-> filepath, fopens |-> fopens, fcloses |-> fcloses]

\* the transfer failed: fclose(fp); unlink(filepath); return -1
transfer_failed(fs, url, filepath) ==
    Outcome(-1, unlink(write_file(fs, filepath, "partial"), filepath),
            <<url>>, "transport_failed", filepath, 1, 1)

\* main never passes a NULL pointer, so the first test never fires.
\* env says how the calls into the system and into libcurl turn out:
\* env.mkdir, env.fopen, env.init (curl_easy_init) and env.res (the transfer)
download_photo(base_url, name, tag, date_folder, bp, fs, env) ==
    LET full_dir_path == full_dir_path_of(bp, date_folder)
        mk == create_directory(fs, full_dir_path, env.mkdir)
        filepath == filepath_of(full_dir_path, name)
        url == url_of(base_url, tag, name)
        opened == write_file(mk.fs, filepath, "empty")
    IN  IF validate_path(bp) # 0
        THEN Outcome(-1, fs, <<>>, "invalid_base", <<>>, 0, 0)
        ELSE IF validate_path(full_dir_path) # 0
        THEN Outcome(-1, fs, <<>>, "invalid_dir", <<>>, 0, 0)
        ELSE IF mk.ret # 0
        THEN Outcome(-1, mk.fs, <<>>, "mkdir_failed", <<>>, 0, 0)
        ELSE IF file_exists(mk.fs, filepath)
        THEN Outcome(0, mk.fs, <<>>, "skipped", filepath, 0, 0)
        ELSE IF ~env.fopen
        THEN Outcome(-1, mk.fs, <<>>, "fopen_failed", filepath, 0, 0)
        ELSE IF ~env.init
        THEN Outcome(0, opened, <<>>, "no_curl", filepath, 1, 1)
        ELSE IF ~env.res
        THEN transfer_failed(opened, url, filepath)
        ELSE Outcome(0, write_file(opened, filepath, "body"), <<url>>,
                     "completed", filepath, 1, 1)

DownloadEnvs ==
    { [mkdir |-> TRUE,  fopen |-> TRUE,  init |-> TRUE,  res |-> TRUE],
      [mkdir |-> FALSE, fopen |-> TRUE,  init |-> TRUE,  res |-> TRUE],
      [mkdir |-> TRUE,  fopen |-> FALSE, init |-> TRUE,  res |-> TRUE],
      [mkdir |-> TRUE,  fopen |-> TRUE,  init |-> FALSE, res |-> TRUE],
      [mkdir |-> TRUE,  fopen |-> TRUE,  init |-> TRUE,  res |-> FALSE] }

\* ------------------------------------------------------------------- inputs
NameJpg == <<"R","0","0","0","1","2","3","4",".","J","P","G">>
DateJune == <<"2","0","2","5","-","0","6","-","0","7">>
StampJune == DateJune \o <<"T","0","9",":","3","2",":","4","0">>
TagRicoh == <<"1","0","0","R","I","C","O","H">>

\* a path of n characters with no "..", no "//"
LongPath(n) == [k \in 1..n |-> IF k = 1 THEN "/" ELSE "a"]

PathM == <<"/","m">>

\* what getopt_long hands to the switch: the option character and optarg
Arg(ch, text) == [c |-> ch, optarg |-> text]

ArgvOptions ==
    { Arg("h", <<>>), Arg("?", <<>>) }
    \cup { Arg("f", v) : v \in { FmtAll, FmtJpg, FmtDng, <<"r","a","w">> } }
    \cup { Arg("F", v) : v \in { NameJpg, <<"b","/",".","d","n","g">>, <<"/">> } }
    \cup { Arg("p", v) : v \in { PathM, <<>>, <<".",".","/","m">>, <<"/","m","/","/","x">>,
                                 LongPath(MAX_PATH - 11), LongPath(MAX_PATH) } }

\* getenv("HOME")
NoHome == [set |-> FALSE, value |-> <<>>]
HomeSet == [set |-> TRUE, value |-> <<"/","h">>]
DefaultSuffix == <<"/","P","i","c","t","u","r","e","s","/","R","i","c","o","h","G","R","I","I">>

NoFiles == [q \in {} |-> "old"]
EmptyFS == [dirs |-> {<<"/">>}, files |-> NoFiles]
\* an earlier run into /m left one photo behind
UsedFS ==
    LET dir == PathM \o <<"/">> \o DateJune
    IN  write_file([dirs |-> {<<"/">>, PathM, dir}, files |-> NoFiles],
                   dir \o <<"/">> \o NameJpg, "old")
\* the environment main starts in: HOME and the file system
InitialEnv == { <<NoHome, EmptyFS>>, <<HomeSet, EmptyFS>>, <<HomeSet, UsedFS>> }

\* the file entries an index document may hold
FileEntry(n, d) == [n |-> n, d |-> d]
EntryJpg == FileEntry(JStr(NameJpg), JStr(StampJune))
EntryDng == FileEntry(JStr(<<"b",".","d","n","g">>), JNotStr)
EntryJpeg == FileEntry(JStr(<<"c"," ",".","x",".","J","p","e","g">>),
                       JStr(<<"2","0","2","5","0","6","0","7">>))
EntryNoExt == FileEntry(JStr(<<"j","p","g">>), JStr(<<"-","9","9","9","-","0","1","-","0","1">>))
EntrySlash == FileEntry(JStr(<<"/">>), JStr(StampJune))
EntryNoName == FileEntry(JNotStr, JStr(StampJune))
FileEntries == { EntryJpg, EntryDng, EntryJpeg, EntryNoExt, EntrySlash, EntryNoName }

SeqsUpTo(S, n) == UNION { [1..k -> S] : k \in 0..n }

Dir(tag, files) == [name |-> tag, files |-> files]
TagSlash == <<"1","/","0">>

\* the directory entries: a tag that is a string, needs sanitizing or is no
\* string, and a "files" that is a list of entries or no array
DirEntries ==
    { Dir(t, f) : t \in { JStr(TagRicoh), JStr(TagSlash), JNotStr },
                  f \in { JArr(fs) : fs \in SeqsUpTo(FileEntries, MaxFiles) } \cup { JNotArr } }

NotJson == [parsed |-> FALSE, dirs |-> JNotArr]
NoDirs == [parsed |-> TRUE, dirs |-> JNotArr]
Index(ds) == [parsed |-> TRUE, dirs |-> JArr(ds)]

\* every body of at most MaxDirs directories of at most MaxFiles files each
Documents ==
    { NotJson, NoDirs } \cup { Index(ds) : ds \in SeqsUpTo(DirEntries, MaxDirs) }

\* the bodies the index request returns in a run of main
IndexBodies ==
    { NotJson, NoDirs,
      Index(<<Dir(JStr(TagRicoh), JArr(<<EntryJpg>>))>>),
      Index(<<Dir(JStr(TagRicoh), JArr(<<EntryJpg, EntryDng>>))>>),
      Index(<<Dir(JStr(TagRicoh), JArr(<<EntryDng, EntryJpg, EntryJpg>>))>>),
      Index(<<Dir(JStr(TagRicoh), JArr(<<EntryJpeg, EntryNoExt>>))>>),
      Index(<<Dir(JStr(TagRicoh), JArr(<<EntrySlash, EntryNoName>>))>>),
      Index(<<Dir(JNotStr, JArr(<<EntryJpg>>)),
              Dir(JStr(TagSlash), JArr(<<EntryNoExt>>)),
              Dir(JStr(TagRicoh), JNotArr),
              Dir(JStr(TagRicoh), JArr(<<EntryJpeg>>))>>) }

NoDocument == [parsed |-> FALSE, dirs |-> JNotArr]

\* what a fresh malloc block may hold
Heaps ==
    { [ok |-> FALSE, block |-> Photo(<<>>, <<>>, <<>>)],
      [ok |-> TRUE, block |-> Photo(<<>>, <<>>, <<>>)],
      [ok |-> TRUE, block |-> Photo(<<"?",".","j","p","g">>, <<"?">>, <<"?">>)] }

\* -------------------------------------------------------------------- state
VARIABLES
    pc,          \* where main is: "parse_arguments", "main", "fetch", "parse", "loop", "done"
    nopt,        \* how many options getopt_long has handed out
    c,           \* parse_arguments' c
    optarg,      \* getopt's optarg
    options,     \* struct cli_options
    home,        \* getenv("HOME")
    base_path,   \* main's base_path
    disk,        \* the file system
    response,    \* the body of the index response
    res,         \* main's res: "unset", "CURLE_OK" or "failed"
    decode_ret,  \* whether parse_photos_json returned 0: "unset", "ok" or "failed"
    photos,      \* main's photos[0..photo_count-1]
    i,           \* the loop index of main
    downloaded,  \* main's downloaded
    exit_code,   \* what main returned, -1 while it runs
    requests,    \* the URLs requested so far
    call,        \* the latest call of download_photo and what it did
    passed,      \* the calls of download_photo so far: the index i and how each ended
    buf,         \* a buffer that sanitize_filename is applied to
    runs         \* how often sanitize_filename has been applied to buf

vars == <<pc, nopt, c, optarg, options, home, base_path, disk, response, res,
          decode_ret, photos, i, downloaded, exit_code, requests, call, passed,
          buf, runs>>

mainVars == <<pc, nopt, c, optarg, options, home, base_path, disk, response, res,
              decode_ret, photos, i, downloaded, exit_code, requests, call, passed>>

NoCall == [index |-> -1, before |-> 0, disk |-> EmptyFS,
           out |-> Outcome(0, EmptyFS, <<>>, "none", <<>>, 0, 0)]

\* the defaults parse_arguments sets before its loop
DefaultOptions == [format |-> FmtAll, filename |-> <<>>, target_path |-> <<>>, help |-> 0]

Init ==
    /\ pc = "parse_arguments"
    /\ nopt = 0
    /\ c = "none"
    /\ optarg = <<>>
    /\ options = DefaultOptions
    /\ \E e \in InitialEnv : home = e[1] /\ disk = e[2]
    /\ base_path = <<>>
    /\ response = NoDocument
    /\ res = "unset"
    /\ decode_ret = "unset"
    /\ photos = <<>>
    /\ i = 0
    /\ downloaded = 0
    /\ exit_code = -1
    /\ requests = <<>>
    /\ call = NoCall
    /\ passed = <<>>
    /\ buf = <<>>
    /\ runs = 0

\* ---------------------------------------------------------- parse_arguments
\* One case of the switch: "more" to go round the loop again (break), else
\* "ret" is what parse_arguments returns.
parse_h(opts) == [more |-> FALSE, ret |-> 0, options |-> [opts EXCEPT !.help = 1]]

parse_f(opts, text) ==
    IF text = FmtDng \/ text = FmtJpg \/ text = FmtAll
    THEN [more |-> TRUE, ret |-> 0, options |-> [opts EXCEPT !.format = text]]
    ELSE [more |-> FALSE, ret |-> -1, options |-> opts]

parse_F(opts, text) ==
    LET filename == sanitize_filename(strncpy(text, MAX_FILENAME - 1))
        o == [opts EXCEPT !.filename = filename]
    IN  IF Len(filename) = 0
        THEN [more |-> FALSE, ret |-> -1, options |-> o]
        ELSE [more |-> TRUE, ret |-> 0, options |-> o]

parse_p(opts, text) ==
    LET target_path == strncpy(text, MAX_PATH - 1)
        o == [opts EXCEPT !.target_path = target_path]
    IN  IF validate_path(target_path) # 0
        THEN [more |-> FALSE, ret |-> -1, options |-> o]
        ELSE [more |-> TRUE, ret |-> 0, options |-> o]

parse_option(opts, arg) ==
    IF arg.c = "h" THEN parse_h(opts)
    ELSE IF arg.c = "f" THEN parse_f(opts, arg.optarg)
    ELSE IF arg.c = "F" THEN parse_F(opts, arg.optarg)
    ELSE IF arg.c = "p" THEN parse_p(opts, arg.optarg)
    ELSE [more |-> FALSE, ret |-> -1, options |-> opts]

\* getopt_long returns an option: one pass of the while loop; a return of
\* -1 makes main return 1
GetoptNext(arg) ==
    /\ pc = "parse_arguments"
    /\ nopt < MaxArgs
    /\ LET r == parse_option(options, arg)
       IN  /\ options' = r.options
           /\ pc' = IF r.more THEN "parse_arguments"
                    ELSE IF r.ret = 0 THEN "main" ELSE "done"
           /\ exit_code' = IF ~r.more /\ r.ret # 0 THEN 1 ELSE exit_code
    /\ nopt' = nopt + 1
    /\ c' = arg.c
    /\ optarg' = arg.optarg
    /\ UNCHANGED <<home, base_path, disk, response, res, decode_ret, photos, i,
                   downloaded, requests, call, passed, buf, runs>>

\* getopt_long returns -1 (it has reset optarg): parse_arguments returns 0
GetoptEnd ==
    /\ pc = "parse_arguments"
    /\ c' = "end"
    /\ optarg' = <<>>
    /\ pc' = "main"
    /\ UNCHANGED <<nopt, options, home, base_path, disk, response, res,
                   decode_ret, photos, i, downloaded, exit_code, requests, call,
                   passed, buf, runs>>

\* --------------------------------------------------------------------- main
\* "Determine target path": the path, and whether main goes on
target_path_of(opts, env_home) ==
    IF opts.target_path # <<>>
    THEN [ok |-> TRUE, path |-> snprintf(MAX_PATH, opts.target_path)]
    ELSE IF ~env_home.set
    THEN [ok |-> FALSE, path |-> <<>>]
    ELSE LET path == snprintf(MAX_PATH, env_home.value \o DefaultSuffix)
         IN  [ok |-> validate_path(path) = 0, path |-> path]

\* from "Show help if requested" to "Create base directory"
Setup(mkdir_ok) ==
    /\ pc = "main"
    /\ IF options.help = 1
       THEN /\ pc' = "done"
            /\ exit_code' = 0
            /\ UNCHANGED <<base_path, disk>>
       ELSE LET t == target_path_of(options, home)
                mk == create_directory(disk, t.path, mkdir_ok)
            IN  IF ~t.ok
                THEN /\ pc' = "done"
                     /\ exit_code' = 1
                     /\ base_path' = t.path
                     /\ UNCHANGED disk
                ELSE /\ base_path' = t.path
                     /\ disk' = mk.fs
                     /\ pc' = IF mk.ret # 0 THEN "done" ELSE "fetch"
                     /\ exit_code' = IF mk.ret # 0 THEN 1 ELSE exit_code
    /\ UNCHANGED <<nopt, c, optarg, options, home, response, res, decode_ret,
                   photos, i, downloaded, requests, call, passed, buf, runs>>

\* "Perform the request": curl_easy_init, then curl_easy_perform
FetchIndex(init_ok, perform_ok, body) ==
    /\ pc = "fetch"
    /\ IF ~init_ok
       THEN /\ pc' = "done"
            /\ exit_code' = 0
            /\ UNCHANGED <<requests, res, response>>
       ELSE /\ requests' = Append(requests, IndexUrl)
            /\ IF ~perform_ok
               THEN /\ res' = "failed"
                    /\ pc' = "done"
                    /\ exit_code' = 0
                    /\ UNCHANGED response
               ELSE /\ res' = "CURLE_OK"
                    /\ response' = body
                    /\ pc' = "parse"
                    /\ UNCHANGED exit_code
    /\ UNCHANGED <<nopt, c, optarg, options, home, base_path, disk, decode_ret,
                   photos, i, downloaded, call, passed, buf, runs>>

\* "Parse JSON and extract photo information"
ParseIndex(heap) ==
    /\ pc = "parse"
    /\ LET r == parse_photos_json(response, heap)
       IN  IF r.ret = 0
           THEN /\ photos' = r.photos
                /\ decode_ret' = "ok"
                /\ pc' = "loop"
                /\ UNCHANGED exit_code
           ELSE /\ decode_ret' = "failed"
                /\ pc' = "done"
                /\ exit_code' = 0
                /\ UNCHANGED photos
    /\ UNCHANGED <<nopt, c, optarg, options, home, base_path, disk, response, res,
                   i, downloaded, requests, call, passed, buf, runs>>

\* the two filters of the loop body: TRUE when photo is passed on
name_filter(opts, photo) == opts.filename = <<>> \/ photo.name = opts.filename

\* the loop body with the format checked only when no exact name is given
selected_name_or_format(opts, photo) ==
    IF opts.filename # <<>>
    THEN photo.name = opts.filename
    ELSE matches_format(photo.name, opts.format)

selected(opts, photo) ==
    /\ name_filter(opts, photo)
    /\ matches_format(photo.name, opts.format)

\* downloaded++ when download_photo returned 0
count_download(n, ret) == IF ret = 0 THEN n + 1 ELSE n

\* the loop index after a pass of the body
next_index(k, ret) == k + 1

\* one pass of "for (int i = 0; i < photo_count; i++)"
LoopIter(env) ==
    /\ pc = "loop"
    /\ i < Len(photos)
    /\ LET photo == photos[i + 1]
           out == download_photo(BaseUrl, photo.name, photo.tag, photo.date,
                                 base_path, disk, env)
       IN  IF ~selected(options, photo)
           THEN /\ i' = i + 1
                /\ UNCHANGED <<disk, requests, call, passed, downloaded>>
           ELSE /\ disk' = out.fs
                /\ requests' = requests \o out.urls
                /\ call' = [index |-> i, before |-> downloaded, disk |-> disk, out |-> out]
                /\ passed' = Append(passed, [index |-> i, how |-> out.how])
                /\ downloaded' = count_download(downloaded, out.ret)
                /\ i' = next_index(i, out.ret)
    /\ UNCHANGED <<pc, nopt, c, optarg, options, home, base_path, response, res,
                   decode_ret, photos, exit_code, buf, runs>>

\* the loop is over: the summary, the cleanup, return 0
LoopEnd ==
    /\ pc = "loop"
    /\ i >= Len(photos)
    /\ pc' = "done"
    /\ exit_code' = 0
    /\ UNCHANGED <<nopt, c, optarg, options, home, base_path, disk, response, res,
                   decode_ret, photos, i, downloaded, requests, call, passed, buf, runs>>

Next ==
    \/ \E arg \in ArgvOptions : GetoptNext(arg)
    \/ GetoptEnd
    \/ \E mkdir_ok \in BOOLEAN : Setup(mkdir_ok)
    \/ \E init_ok \in BOOLEAN, perform_ok \in BOOLEAN, body \in IndexBodies :
          FetchIndex(init_ok, perform_ok, body)
    \/ \E heap \in Heaps : ParseIndex(heap)
    \/ \E env \in DownloadEnvs : LoopIter(env)
    \/ LoopEnd

Spec == Init /\ [][Next]_vars

\* ------------------------------------------------- the decoder on its own
\* main right after the index request of "rgr2import -p /m" succeeded, with
\* any body of Documents in the response buffer
InitDecode ==
    /\ pc = "parse"
    /\ nopt = 1
    /\ c = "end"
    /\ optarg = <<>>
    /\ options = [DefaultOptions EXCEPT !.target_path = PathM]
    /\ home = HomeSet
    /\ base_path = PathM
    /\ disk = [EmptyFS EXCEPT !.dirs = @ \cup {PathM}]
    /\ response \in Documents
    /\ res = "CURLE_OK"
    /\ decode_ret = "unset"
    /\ photos = <<>>
    /\ i = 0
    /\ downloaded = 0
    /\ exit_code = -1
    /\ requests = <<IndexUrl>>
    /\ call = NoCall
    /\ passed = <<>>
    /\ buf = <<>>
    /\ runs = 0

NextDecode == \E heap \in Heaps : ParseIndex(heap)

SpecDecode == InitDecode /\ [][NextDecode]_vars

\* ------------------------------------------- sanitize_filename on its own
SanChars == { "a", "Z", "7", ".", "-", "_", "/", " " }

InitSanitize ==
    /\ pc = "sanitize"
    /\ nopt = 0
    /\ c = "none"
    /\ optarg \in SeqsUpTo(SanChars, MaxSanLen)
    /\ options = DefaultOptions
    /\ home = NoHome
    /\ base_path = <<>>
    /\ disk = EmptyFS
    /\ response = NoDocument
    /\ res = "unset"
    /\ decode_ret = "unset"
    /\ photos = <<>>
    /\ i = 0
    /\ downloaded = 0
    /\ exit_code = -1
    /\ requests = <<>>
    /\ call = NoCall
    /\ passed = <<>>
    /\ buf = optarg
    /\ runs = 0

\* sanitize_filename(buf), at most twice
Sanitize ==
    /\ pc = "sanitize"
    /\ runs < 2
    /\ buf' = sanitize_filename(buf)
    /\ runs' = runs + 1
    /\ UNCHANGED mainVars

NextSanitize == Sanitize

SpecSanitize == InitSanitize /\ [][NextSanitize]_vars

\* ==================================================================== claims
\* the characters [A-Za-z0-9._-]
AllowedChars ==
    { UpperChars[k] : k \in 1..26 } \cup { LowerChars[k] : k \in 1..26 }
    \cup { DigitChars[k] : k \in 1..10 } \cup { ".", "-", "_" }
IsAllowed(ch) == ch \in AllowedChars
OnlyAllowed(text) == \A k \in 1..Len(text) : text[k] \in AllowedChars

\* the layout {base_path}/{date}/{name}
LayoutDir(bp, photo) == bp \o <<"/">> \o photo.date
LayoutPath(bp, photo) == LayoutDir(bp, photo) \o <<"/">> \o photo.name

\* the text after the last '.', lower-cased; <<>> when there is no '.'
Dots(name) == { k \in 1..Len(name) : name[k] = "." }
LastDot(name) == CHOOSE k \in Dots(name) : \A m \in Dots(name) : m <= k
LowerExt(name) ==
    IF Dots(name) = {} THEN <<>>
    ELSE [k \in 1..(Len(name) - LastDot(name)) |-> tolower(name[LastDot(name) + k])]
FormatSelects(format, name) ==
    \/ format = FmtAll
    \/ format = FmtJpg /\ Dots(name) # {} /\ LowerExt(name) \in { FmtJpg, ExtJpeg }
    \/ format = FmtDng /\ Dots(name) # {} /\ LowerExt(name) = FmtDng

\* the indices of the records gone through so far, in order
Visited == [k \in 1..i |-> k - 1]
PassedIndices == [k \in 1..Len(passed) |-> passed[k].index]
InLoop == pc = "loop" \/ (pc = "done" /\ decode_ret = "ok")
Called == call.index >= 0

\* C1: when a file already exists at base_path/date/name as download_photo is
\* called, the call requests nothing, opens and changes no file, reports the
\* record as skipped, and the record is not added to the downloaded count.
C1_SkipNotCounted ==
    (Called /\ is_file(call.disk, LayoutPath(base_path, photos[call.index + 1])))
        => /\ call.out.how = "skipped"
           /\ call.out.urls = <<>>
           /\ call.out.fopens = 0
           /\ disk.files = call.disk.files
           /\ downloaded = call.before

\* C2: a transfer that fails after the destination was opened leaves no file
\* at that path, is not counted as downloaded, and the loop goes on through
\* every remaining record.
C2_FailedTransferCleansUp ==
    /\ (Called /\ call.out.how = "transport_failed")
          => /\ call.out.fopens = 1
             /\ ~path_exists(disk, call.out.filepath)
             /\ downloaded = call.before
    /\ \A k \in 1..Len(passed) :
          passed[k].how = "transport_failed"
             => /\ pc \in {"loop", "done"}
                /\ i > passed[k].index
                /\ (pc = "done" => i = Len(photos))

\* C2 witness: a transfer failed, a later record was downloaded, the run ended
C2_Witness ==
    /\ pc = "done"
    /\ \E k \in 1..Len(passed) : \E m \in (k + 1)..Len(passed) :
          /\ passed[k].how = "transport_failed"
          /\ passed[m].how = "completed"

\* C3: the exit code is 0 exactly when help was requested or the download
\* pass completed; it is non-zero when the index fetch or decode failed.
C3_ExitCode ==
    pc = "done"
        => /\ (exit_code = 0) <=> (options.help = 1 \/ decode_ret = "ok")
           /\ (res = "failed" \/ decode_ret = "failed") => exit_code # 0

\* C4 as stated: with an exact filename, the records passed to download_photo
\* are exactly those whose name equals it, whatever the format.
C4_ExactNameOnly ==
    (InLoop /\ options.filename # <<>>)
        => LET Same(k) == photos[k + 1].name = options.filename
           IN  PassedIndices = SelectSeq(Visited, Same)

\* C4 as amended: with an exact filename, the records passed to
\* download_photo are exactly those whose name equals it and whose name the
\* format option selects as well.
C4_ExactNameAndFormat ==
    (InLoop /\ options.filename # <<>>)
        => LET Both(k) == /\ photos[k + 1].name = options.filename
                          /\ FormatSelects(options.format, photos[k + 1].name)
           IN  PassedIndices = SelectSeq(Visited, Both)

\* C4 witness: a record with the exact name was held back by the format
C4_Witness ==
    /\ pc = "done"
    /\ options.filename # <<>>
    /\ options.format = FmtDng
    /\ passed = <<>>
    /\ \E k \in 1..Len(photos) : photos[k].name = options.filename

\* C5: with no exact filename, the records passed to download_photo are, in
\* input order, exactly those the format selects: all selects every record,
\* jpg the extensions jpg and jpeg, dng the extension dng, case-insensitively,
\* the extension being the text after the last '.'.
C5_FormatSubsequence ==
    (InLoop /\ options.filename = <<>>)
        => LET Sel(k) == FormatSelects(options.format, photos[k + 1].name)
           IN  PassedIndices = SelectSeq(Visited, Sel)

\* C5 witness: a jpg run that passed on some records and held back others
C5_Witness ==
    /\ pc = "done"
    /\ options.filename = <<>>
    /\ options.format = FmtJpg
    /\ Len(passed) >= 1
    /\ Len(passed) < Len(photos)
    /\ \E k \in 1..Len(passed) : photos[passed[k].index + 1].name # NameJpg

\* C6: whenever download_photo opens a file, it is base_path/date/name in
\* full, and the directory base_path/date exists.
C6_Layout ==
    (Called /\ call.out.fopens > 0)
        => /\ call.out.filepath = LayoutPath(base_path, photos[call.index + 1])
           /\ is_dir(disk, LayoutDir(base_path, photos[call.index + 1]))

\* C7: every decoded record has a non-empty name, and its name and its tag
\* hold only characters of [A-Za-z0-9._-].
C7_RecordsSanitized ==
    \A k \in 1..Len(photos) :
        /\ photos[k].name # <<>>
        /\ OnlyAllowed(photos[k].name)
        /\ OnlyAllowed(photos[k].tag)

\* dddd-dd-dd
IsIsoDate(text) ==
    /\ Len(text) = 10
    /\ \A k \in {1, 2, 3, 4, 6, 7, 9, 10} : IsDigit(text[k])
    /\ text[5] = "-" /\ text[8] = "-"

\* the body holds one directory with one file whose "d" is d
OneFile(d) ==
    /\ response.parsed /\ response.dirs.isArray
    /\ Len(response.dirs.items) = 1
    /\ response.dirs.items[1].name.isString
    /\ response.dirs.items[1].files.isArray
    /\ Len(response.dirs.items[1].files.items) = 1
    /\ response.dirs.items[1].files.items[1].d = d

\* C8: every decoded record's date is dddd-dd-dd; an absent "d" gives the
\* current local date and "2025-06-07T09:32:40" gives "2025-06-07".
C8_DateShape ==
    /\ \A k \in 1..Len(photos) : IsIsoDate(photos[k].date)
    /\ (Len(photos) = 1 /\ OneFile(JNotStr)) => photos[1].date = LocalDate
    /\ (Len(photos) = 1 /\ OneFile(JStr(StampJune))) => photos[1].date = DateJune

\* a command-line option the specification calls invalid
InvalidOption(ch, text) ==
    \/ ch = "f" /\ text \notin { FmtDng, FmtJpg, FmtAll }
    \/ ch = "F" /\ \A k \in 1..Len(text) : ~IsAllowed(text[k])
    \/ ch = "p" /\ \/ Len(text) = 0
                   \/ strstr(text, <<".", ".">>)
                   \/ strstr(text, <<"/", "/">>)
                   \/ Len(text) >= MAX_PATH

Untouched == disk \in { e[2] : e \in InitialEnv } /\ requests = <<>>

\* C9: once an invalid option has been read the process has exited non-zero
\* with no directory created and nothing requested; -h exits 0 in the same way.
C9_UsageErrors ==
    /\ InvalidOption(c, optarg) => (pc = "done" /\ exit_code > 0 /\ Untouched)
    /\ (pc = "done" /\ options.help = 1) => (exit_code = 0 /\ Untouched)

\* C10: sanitize_filename leaves exactly the characters of [A-Za-z0-9._-],
\* in their order, and applying it again changes nothing.
C10_SanitizeIdempotent ==
    (pc = "sanitize" /\ runs >= 1) => buf = SelectSeq(optarg, IsAllowed)

\* C10 witness: sanitized twice, with characters dropped and characters kept
C10_Witness ==
    /\ pc = "sanitize"
    /\ runs = 2
    /\ 0 < Len(buf)
    /\ Len(buf) < Len(optarg)

\* C11: a call of download_photo that opens the destination closes it exactly
\* once; unless the transfer completed, the destination is removed and the
\* call reports failure, so a file newly at the destination after the call
\* means a transfer was performed and completed.
C11_HandleScoped ==
    (Called /\ call.out.fopens > 0)
        => /\ call.out.fopens = 1
           /\ call.out.fcloses = 1
           /\ call.out.how # "completed"
                 => /\ ~path_exists(disk, call.out.filepath)
                    /\ call.out.ret # 0
           /\ (is_file(disk, call.out.filepath) /\ ~is_file(call.disk, call.out.filepath))
                 => /\ call.out.how = "completed"
                    /\ call.out.urls # <<>>
                    /\ disk.files[call.out.filepath] = "body"

====
